---- MODULE Spec2Model ----
(***************************************************************************)
(* A model of utility.py: get_video_id_from_url, get_transcript and         *)
(* generate_prompt_from_transcript.                                         *)
(*                                                                          *)
(* Python strings are sequences of one-character strings, so that           *)
(* startswith, in, lower, split, strip and re.search are computed on the    *)
(* characters.  None is the record None; a string value s is Str(s).        *)
(*                                                                          *)
(* Three specifications share the variables: Spec runs get_transcript,      *)
(* SpecId runs get_video_id_from_url, SpecPrompt runs                       *)
(* generate_prompt_from_transcript.  The variables of the functions a       *)
(* specification does not run stay at their idle values.                    *)
(***************************************************************************)
EXTENDS Integers, Sequences, FiniteSets

VARIABLES
    \* get_transcript
    video_id,      \* the argument
    tpc,           \* position in get_transcript
    tracks,        \* transcript_list, once api.list returned
    idx,           \* index of the descriptor the current loop is at
    calls,         \* the calls made to the caption service, in order
    tresult,       \* the returned value ("pending" record before the return)
    \* get_video_id_from_url
    youtube_url,   \* the argument
    ipc,           \* position in get_video_id_from_url
    parsed_url,    \* the value of urlparse, or Raised
    rule,          \* which rule produced the return value
    iresult,       \* the returned value
    \* generate_prompt_from_transcript
    transcript,    \* the argument
    ppc,           \* position in generate_prompt_from_transcript
    k,             \* index of the segment the loop is at
    prompt         \* the prompt built so far

tvars == <<video_id, tpc, tracks, idx, calls, tresult>>
ivars == <<youtube_url, ipc, parsed_url, rule, iresult>>
pvars == <<transcript, ppc, k, prompt>>
vars == <<tvars, ivars, pvars>>

-----------------------------------------------------------------------------
(* Python values *)

None == [tag |-> "None"]
Pending == [tag |-> "pending"]
Raised == [tag |-> "raised"]
Str(s) == [tag |-> "str", val |-> s]

-----------------------------------------------------------------------------
(* Python string operations, on sequences of characters *)

UpperLetters ==
    <<"A","B","C","D","E","F","G","H","I","J","K","L","M",
      "N","O","P","Q","R","S","T","U","V","W","X","Y","Z">>
LowerLetters ==
    <<"a","b","c","d","e","f","g","h","i","j","k","l","m",
      "n","o","p","q","r","s","t","u","v","w","x","y","z">>
Digits == <<"0","1","2","3","4","5","6","7","8","9">>

Range(s) == {s[i] : i \in 1..Len(s)}

\* str.lower on one character
LowerChar(c) ==
    IF \E i \in 1..26 : UpperLetters[i] = c
    THEN LowerLetters[CHOOSE i \in 1..26 : UpperLetters[i] = c]
    ELSE c

\* str.lower
Lower(s) == [i \in 1..Len(s) |-> LowerChar(s[i])]

\* s[i:i+len(p)] == p, i counted from 1
MatchAt(s, p, i) ==
    /\ i >= 1
    /\ i + Len(p) - 1 <= Len(s)
    /\ \A j \in 1..Len(p) : s[i + j - 1] = p[j]

\* str.startswith
StartsWith(s, p) == MatchAt(s, p, 1)

\* the `in` operator on strings
Contains(s, p) == \E i \in 1..(Len(s) + 1) : MatchAt(s, p, i)

\* str.find, counted from 1; 0 when absent
Find(s, p) ==
    IF Contains(s, p)
    THEN CHOOSE i \in 1..(Len(s) + 1) :
            /\ MatchAt(s, p, i)
            /\ \A j \in 1..(i - 1) : ~MatchAt(s, p, j)
    ELSE 0

\* s[i:], i counted from 1
From(s, i) == SubSeq(s, i, Len(s))

-----------------------------------------------------------------------------
(* get_transcript *)

\* Bounds of the model
MaxTracks == 3

s_en == <<"e","n">>
s_english == <<"e","n","g","l","i","s","h">>

\* The descriptors the caption service may list: language_code and language.
Descriptors ==
    { [language_code |-> <<"e","n">>,
       language |-> <<"E","n","g","l","i","s","h">>],
      [language_code |-> <<"e","n","-","U","S">>,
       language |-> <<"A","n","g","l","a","i","s">>],
      [language_code |-> <<"u","n","d">>,
       language |-> <<"E","N","G","L","I","S","H"," ","C","C">>],
      [language_code |-> <<"d","e","-","e","n">>,
       language |-> <<"G","e","r","m","a","n">>] }

TrackLists == UNION {[1..n -> Descriptors] : n \in 0..MaxTracks}

\* The identifiers get_transcript is called with.
VideoIds == {None, Str(<<>>), Str(<<"a","b","c">>)}

\* Falsy with the test `video_id is None` in place of `not video_id`
FalsyNoneOnly(v) == v = None

\* `not video_id`
Falsy(v) == v = None \/ (v.tag = "str" /\ v.val = <<>>)

\* IsEnglish without the lower() of the language name
IsEnglishNoLower(t) ==
    \/ StartsWith(t.language_code, s_en)
    \/ Contains(t.language, s_english)

\* lang_code.startswith('en') or 'english' in lang.lower()
IsEnglish(t) ==
    \/ StartsWith(t.language_code, s_en)
    \/ Contains(Lower(t.language), s_english)

\* What transcript_info.fetch() returns for descriptor i, and what
\* transcript_info.translate('en').fetch() returns: a FetchedTranscript, on
\* which the len() of the log line is defined.
Fetched(i) == [track |-> i, translated |-> FALSE]
Translated(i) == [track |-> i, translated |-> TRUE]

Call(op, i, ok) == [op |-> op, track |-> i, ok |-> ok]

TInit ==
    /\ video_id \in VideoIds
    /\ tpc = "start"
    /\ tracks = <<>>
    /\ idx = 0
    /\ calls = <<>>
    /\ tresult = Pending

TIdle ==
    /\ video_id = None
    /\ tpc = "idle"
    /\ tracks = <<>>
    /\ idx = 0
    /\ calls = <<>>
    /\ tresult = Pending

\* if not video_id: return None
NoVideoId ==
    /\ tpc = "start"
    /\ Falsy(video_id)
    /\ tpc' = "done"
    /\ tresult' = None
    /\ UNCHANGED <<video_id, tracks, idx, calls, ivars, pvars>>

\* api.list(video_id) returns the descriptors
ListOk ==
    /\ tpc = "start"
    /\ ~Falsy(video_id)
    /\ \E ts \in TrackLists : tracks' = ts
    /\ calls' = Append(calls, Call("list", 0, TRUE))
    /\ tpc' = "pass1"
    /\ idx' = 1
    /\ UNCHANGED <<video_id, tresult, ivars, pvars>>

\* ListRaises without the outer handlers: the exception leaves the call
ListRaisesEscapes ==
    /\ tpc = "start"
    /\ ~Falsy(video_id)
    /\ calls' = Append(calls, Call("list", 0, FALSE))
    /\ tpc' = "done"
    /\ tresult' = Raised
    /\ UNCHANGED <<video_id, tracks, idx, ivars, pvars>>

\* api.list(video_id) raises: the outer handlers return None
ListRaises ==
    /\ tpc = "start"
    /\ ~Falsy(video_id)
    /\ calls' = Append(calls, Call("list", 0, FALSE))
    /\ tpc' = "done"
    /\ tresult' = None
    /\ UNCHANGED <<video_id, tracks, idx, ivars, pvars>>

\* One iteration of the first loop on a descriptor that is not English
Pass1Skip ==
    /\ tpc = "pass1"
    /\ idx <= Len(tracks)
    /\ ~IsEnglish(tracks[idx])
    /\ idx' = idx + 1
    /\ UNCHANGED <<video_id, tpc, tracks, calls, tresult, ivars, pvars>>

\* One iteration of the first loop: fetch() returns, and so does the call
Pass1FetchOk ==
    /\ tpc = "pass1"
    /\ idx <= Len(tracks)
    /\ IsEnglish(tracks[idx])
    /\ calls' = Append(calls, Call("fetch", idx, TRUE))
    /\ tresult' = Fetched(idx)
    /\ tpc' = "done"
    /\ UNCHANGED <<video_id, tracks, idx, ivars, pvars>>

\* Pass1FetchRaises with the handler outside the loop: the call returns None
Pass1FetchRaisesAbort ==
    /\ tpc = "pass1"
    /\ idx <= Len(tracks)
    /\ IsEnglish(tracks[idx])
    /\ calls' = Append(calls, Call("fetch", idx, FALSE))
    /\ tresult' = None
    /\ tpc' = "done"
    /\ UNCHANGED <<video_id, tracks, idx, ivars, pvars>>

\* One iteration of the first loop: fetch() raises, the loop continues
Pass1FetchRaises ==
    /\ tpc = "pass1"
    /\ idx <= Len(tracks)
    /\ IsEnglish(tracks[idx])
    /\ calls' = Append(calls, Call("fetch", idx, FALSE))
    /\ idx' = idx + 1
    /\ UNCHANGED <<video_id, tpc, tracks, tresult, ivars, pvars>>

\* The first loop is exhausted: the second loop starts at the first descriptor
Pass1End ==
    /\ tpc = "pass1"
    /\ idx > Len(tracks)
    /\ tpc' = "pass2"
    /\ idx' = 1
    /\ UNCHANGED <<video_id, tracks, calls, tresult, ivars, pvars>>

\* One iteration of the second loop: translate('en') raises
Pass2TranslateRaises ==
    /\ tpc = "pass2"
    /\ idx <= Len(tracks)
    /\ calls' = Append(calls, Call("translate", idx, FALSE))
    /\ idx' = idx + 1
    /\ UNCHANGED <<video_id, tpc, tracks, tresult, ivars, pvars>>

\* Pass2FetchRaises with the handler outside the loop: the call returns None
Pass2FetchRaisesAbort ==
    /\ tpc = "pass2"
    /\ idx <= Len(tracks)
    /\ calls' = calls \o <<Call("translate", idx, TRUE),
                          Call("fetch_translated", idx, FALSE)>>
    /\ tresult' = None
    /\ tpc' = "done"
    /\ UNCHANGED <<video_id, tracks, idx, ivars, pvars>>

\* One iteration of the second loop: translate('en') returns, fetch() raises
Pass2FetchRaises ==
    /\ tpc = "pass2"
    /\ idx <= Len(tracks)
    /\ calls' = calls \o <<Call("translate", idx, TRUE),
                          Call("fetch_translated", idx, FALSE)>>
    /\ idx' = idx + 1
    /\ UNCHANGED <<video_id, tpc, tracks, tresult, ivars, pvars>>

\* One iteration of the second loop: both calls return, and so does the call
Pass2Ok ==
    /\ tpc = "pass2"
    /\ idx <= Len(tracks)
    /\ calls' = calls \o <<Call("translate", idx, TRUE),
                          Call("fetch_translated", idx, TRUE)>>
    /\ tresult' = Translated(idx)
    /\ tpc' = "done"
    /\ UNCHANGED <<video_id, tracks, idx, ivars, pvars>>

\* The second loop is exhausted: return None
Pass2End ==
    /\ tpc = "pass2"
    /\ idx > Len(tracks)
    /\ tpc' = "done"
    /\ tresult' = None
    /\ UNCHANGED <<video_id, tracks, idx, calls, ivars, pvars>>

Next ==
    \/ NoVideoId
    \/ ListOk
    \/ ListRaises
    \/ Pass1Skip
    \/ Pass1FetchOk
    \/ Pass1FetchRaises
    \/ Pass1End
    \/ Pass2TranslateRaises
    \/ Pass2FetchRaises
    \/ Pass2Ok
    \/ Pass2End

-----------------------------------------------------------------------------
(* get_video_id_from_url: the library calls *)

\* The width of the patterns' capture, {11}
IdLen == 11

s_youtube_com == <<"y","o","u","t","u","b","e",".","c","o","m">>
s_youtu_be == <<"y","o","u","t","u",".","b","e">>
s_embed == <<"/","e","m","b","e","d","/">>

\* str.split(sep): the pieces between the occurrences of sep, left to right
RECURSIVE Split(_, _)
Split(s, sep) ==
    LET i == Find(s, sep)
    IN  IF i = 0
        THEN <<s>>
        ELSE <<SubSeq(s, 1, i - 1)>> \o Split(From(s, i + Len(sep)), sep)

\* str.lstrip(c) and str.rstrip(c) for a one-character c
RECURSIVE LStrip(_, _)
LStrip(s, c) ==
    IF Len(s) > 0 /\ s[1] = c THEN LStrip(Tail(s), c) ELSE s
RECURSIVE RStrip(_, _)
RStrip(s, c) ==
    IF Len(s) > 0 /\ s[Len(s)] = c
    THEN RStrip(SubSeq(s, 1, Len(s) - 1), c)
    ELSE s
\* Strip as rstrip: the leading characters stay
StripRightOnly(s, c) == RStrip(s, c)

\* str.strip(c)
Strip(s, c) == RStrip(LStrip(s, c), c)

\* The characters urlsplit allows in a scheme
SchemeChars ==
    Range(UpperLetters) \cup Range(LowerLetters) \cup Range(Digits)
        \cup {"+", "-", "."}
Letters == Range(UpperLetters) \cup Range(LowerLetters)

\* The least position from `start` on of one of the characters '/', '?', '#',
\* or Len(s) + 1: the end of the netloc (_splitnetloc)
NetlocEnd(s, start) ==
    LET stops == {i \in start..Len(s) : s[i] \in {"/", "?", "#"}}
    IN  IF stops = {} THEN Len(s) + 1
        ELSE CHOOSE i \in stops : \A j \in stops : i <= j

\* urlparse(url) on a string without whitespace, control characters or ';':
\* the scheme up to the first ':' when it is a letter followed by scheme
\* characters, the netloc after '//' up to the next '/', '?' or '#', then the
\* fragment after the first '#' and the query after the first '?'.  A netloc
\* with one of '[' and ']' but not the other raises ValueError.
UrlParse(url) ==
    LET colon == Find(url, <<":">>)
        hasScheme ==
            /\ colon > 1
            /\ url[1] \in Letters
            /\ \A i \in 1..(colon - 1) : url[i] \in SchemeChars
        scheme == IF hasScheme THEN Lower(SubSeq(url, 1, colon - 1)) ELSE <<>>
        rest1 == IF hasScheme THEN From(url, colon + 1) ELSE url
        hasNetloc == MatchAt(rest1, <<"/", "/">>, 1)
        nend == NetlocEnd(rest1, 3)
        netloc == IF hasNetloc THEN SubSeq(rest1, 3, nend - 1) ELSE <<>>
        rest2 == IF hasNetloc THEN From(rest1, nend) ELSE rest1
        hash == Find(rest2, <<"#">>)
        fragment == IF hash > 0 THEN From(rest2, hash + 1) ELSE <<>>
        rest3 == IF hash > 0 THEN SubSeq(rest2, 1, hash - 1) ELSE rest2
        qm == Find(rest3, <<"?">>)
        query == IF qm > 0 THEN From(rest3, qm + 1) ELSE <<>>
        path == IF qm > 0 THEN SubSeq(rest3, 1, qm - 1) ELSE rest3
    IN  IF ("[" \in Range(netloc)) # ("]" \in Range(netloc))
        THEN Raised
        ELSE [tag |-> "url", scheme |-> scheme, netloc |-> netloc,
              path |-> path, query |-> query, fragment |-> fragment]

\* The decoding parse_qs applies to a name or a value without '%':
\* replace('+', ' ')
PlusToSpace(s) == [i \in 1..Len(s) |-> IF s[i] = "+" THEN " " ELSE s[i]]

\* SelectSeq with the pieces that hold a name and a non-blank value
HasValue(piece) ==
    LET eq == Find(piece, <<"=">>)
    IN  eq > 0 /\ eq < Len(piece)

NameValue(piece) ==
    LET eq == Find(piece, <<"=">>)
    IN  [name |-> PlusToSpace(SubSeq(piece, 1, eq - 1)),
         value |-> PlusToSpace(From(piece, eq + 1))]

\* ParseQsl with keep_blank_values: a blank value is kept
ParseQslKeepBlank(query) ==
    LET pieces == SelectSeq(Split(query, <<"&">>),
                            LAMBDA p : Find(p, <<"=">>) > 0)
    IN  [i \in 1..Len(pieces) |-> NameValue(pieces[i])]

\* parse_qsl(query): the (name, value) pairs of the '&'-separated pieces, in
\* order; a piece without '=' or with a blank value is dropped
\* (keep_blank_values is False)
ParseQsl(query) ==
    LET pieces == SelectSeq(Split(query, <<"&">>), HasValue)
    IN  [i \in 1..Len(pieces) |-> NameValue(pieces[i])]

\* 'v' in parse_qs(query)
HasV(query) == \E i \in DOMAIN ParseQsl(query) : ParseQsl(query)[i].name = <<"v">>

\* parse_qs(query)['v'][0]
FirstV(query) ==
    LET pairs == ParseQsl(query)
        i == CHOOSE i \in DOMAIN pairs :
                /\ pairs[i].name = <<"v">>
                /\ \A j \in 1..(i - 1) : pairs[j].name # <<"v">>
    IN  pairs[i].value

\* [0-9A-Za-z_-]
IdChars ==
    Range(Digits) \cup Range(UpperLetters) \cup Range(LowerLetters)
        \cup {"_", "-"}

\* The patterns, in order: each is the alternatives of its non-capturing
\* group; the group ([0-9A-Za-z_-]{11}) follows
patterns ==
    << << <<"v","=">>, <<"/">> >>,
       << <<"e","m","b","e","d","/">> >>,
       << <<"w","a","t","c","h","?","v","=">> >> >>

\* One alternative followed by IdLen identifier characters matches at i
AltMatchAt(s, alt, i) ==
    /\ MatchAt(s, alt, i)
    /\ i + Len(alt) + IdLen - 1 <= Len(s)
    /\ \A j \in 0..(IdLen - 1) : s[i + Len(alt) + j] \in IdChars

\* re.search(pattern, s): the match at the leftmost position where an
\* alternative matches, the first such alternative there; None without one.
\* The value is group(1).
ReSearch(pattern, s) ==
    LET hits == {i \in 1..Len(s) :
                    \E a \in 1..Len(pattern) : AltMatchAt(s, pattern[a], i)}
    IN  IF hits = {} THEN None
        ELSE LET i == CHOOSE i \in hits : \A j \in hits : i <= j
                 a == CHOOSE a \in 1..Len(pattern) :
                        /\ AltMatchAt(s, pattern[a], i)
                        /\ \A b \in 1..(a - 1) : ~AltMatchAt(s, pattern[b], i)
                 start == i + Len(pattern[a])
             IN  Str(SubSeq(s, start, start + IdLen - 1))

-----------------------------------------------------------------------------
(* get_video_id_from_url: the inputs *)

\* Bound of the model: the path segments and the query parameters of an input
\* URL, counted together
MaxParts == 3

Prefixes == { <<"h","t","t","p","s",":","/","/">>, <<>> }
Hosts ==
    { <<"w","w","w",".","y","o","u","t","u","b","e",".","c","o","m">>,
      <<"y","o","u","t","u",".","b","e">>,
      <<"e","x","a","m","p","l","e",".","o","r","g">>,
      <<"[","y","o","u","t","u",".","b","e">> }
PathSegments ==
    { <<>>,
      <<"e","m","b","e","d">>,
      <<"w","a","t","c","h">>,
      <<"d","Q","w","4","w","9","W","g","X","c","Q">> }
Params ==
    { <<"v","=","a","b","c","-","D","E","F","_","1","2","3">>,
      <<"v","=">>,
      <<"v","=","a","+","b">>,
      <<"t","=","1","0">> }

Fragments == { <<>>, <<"#","t","=","5">> }

\* "/" before each segment
RECURSIVE PathOf(_)
PathOf(segs) ==
    IF segs = <<>> THEN <<>>
    ELSE <<"/">> \o Head(segs) \o PathOf(Tail(segs))

\* the parameters joined by "&"
RECURSIVE JoinParams(_)
JoinParams(ps) ==
    IF ps = <<>> THEN <<>>
    ELSE IF Len(ps) = 1 THEN Head(ps)
    ELSE Head(ps) \o <<"&">> \o JoinParams(Tail(ps))

\* The query strings with m parameters, "?" included; without parameters
\* also the URL without a "?"
QueriesOf(m) ==
    {<<"?">> \o JoinParams(ps) : ps \in [1..m -> Params]}
        \cup (IF m = 0 THEN {<<>>} ELSE {})

Shapes == {sh \in (0..MaxParts) \X (0..MaxParts) : sh[1] + sh[2] <= MaxParts}

\* The strings get_video_id_from_url is called with
Urls ==
    UNION { {pre \o h \o PathOf(segs) \o q \o f :
                pre \in Prefixes, h \in Hosts,
                segs \in [1..sh[1] -> PathSegments], q \in QueriesOf(sh[2]),
                f \in Fragments} :
            sh \in Shapes }

-----------------------------------------------------------------------------
(* get_video_id_from_url *)

IInit ==
    /\ youtube_url \in Urls
    /\ ipc = "start"
    /\ parsed_url = None
    /\ rule = "none"
    /\ iresult = Pending

\* parsed_url = urlparse(youtube_url) returns
ParseOk ==
    /\ ipc = "start"
    /\ UrlParse(youtube_url) # Raised
    /\ parsed_url' = UrlParse(youtube_url)
    /\ ipc' = "parsed"
    /\ UNCHANGED <<youtube_url, rule, iresult, tvars, pvars>>

\* urlparse(youtube_url) raises: the handler logs and the fallback follows
ParseRaises ==
    /\ ipc = "start"
    /\ UrlParse(youtube_url) = Raised
    /\ parsed_url' = Raised
    /\ ipc' = "fallback"
    /\ UNCHANGED <<youtube_url, rule, iresult, tvars, pvars>>

\* 'youtube.com' in parsed_url.netloc and 'v' in query_params
VCond(p) == Contains(p.netloc, s_youtube_com) /\ HasV(p.query)

\* 'youtu.be' in parsed_url.netloc
ShortCond(p) == Contains(p.netloc, s_youtu_be)

\* 'youtube.com' in parsed_url.netloc and '/embed/' in parsed_url.path
EmbedCond(p) == Contains(p.netloc, s_youtube_com) /\ Contains(p.path, s_embed)

\* parsed_url.path.strip('/').split('/')[0]
ShortId(p) == Split(Strip(p.path, "/"), <<"/">>)[1]

\* parsed_url.path.split('/embed/')[1].split('/')[0].split('?')[0]
EmbedId(p) == Split(Split(Split(p.path, s_embed)[2], <<"/">>)[1], <<"?">>)[1]

\* return query_params['v'][0]
VRule ==
    /\ ipc = "parsed"
    /\ VCond(parsed_url)
    /\ iresult' = Str(FirstV(parsed_url.query))
    /\ rule' = "v"
    /\ ipc' = "done"
    /\ UNCHANGED <<youtube_url, parsed_url, tvars, pvars>>

\* the youtu.be rule
ShortRule ==
    /\ ipc = "parsed"
    /\ ~VCond(parsed_url)
    /\ ShortCond(parsed_url)
    /\ iresult' = Str(ShortId(parsed_url))
    /\ rule' = "short"
    /\ ipc' = "done"
    /\ UNCHANGED <<youtube_url, parsed_url, tvars, pvars>>

\* the embed rule
EmbedRule ==
    /\ ipc = "parsed"
    /\ ~VCond(parsed_url)
    /\ ~ShortCond(parsed_url)
    /\ EmbedCond(parsed_url)
    /\ iresult' = Str(EmbedId(parsed_url))
    /\ rule' = "embed"
    /\ ipc' = "done"
    /\ UNCHANGED <<youtube_url, parsed_url, tvars, pvars>>

\* no rule returned: fall out of the try block
NoRule ==
    /\ ipc = "parsed"
    /\ ~VCond(parsed_url)
    /\ ~ShortCond(parsed_url)
    /\ ~EmbedCond(parsed_url)
    /\ ipc' = "fallback"
    /\ UNCHANGED <<youtube_url, parsed_url, rule, iresult, tvars, pvars>>

\* FirstMatch with a capture one character short
FirstMatchShort(url) ==
    LET hits == {n \in 1..Len(patterns) : ReSearch(patterns[n], url) # None}
    IN  IF hits = {} THEN None
        ELSE LET m == ReSearch(patterns[CHOOSE n \in hits : \A j \in hits : n <= j], url)
             IN  Str(SubSeq(m.val, 1, IdLen - 1))

\* The loop over the patterns: the capture of the first pattern that matches
\* youtube_url, None when none does
FirstMatch(url) ==
    LET hits == {n \in 1..Len(patterns) : ReSearch(patterns[n], url) # None}
    IN  IF hits = {} THEN None
        ELSE ReSearch(patterns[CHOOSE n \in hits : \A j \in hits : n <= j], url)

\* a pattern matches: return match.group(1)
FallbackMatch ==
    /\ ipc = "fallback"
    /\ FirstMatch(youtube_url) # None
    /\ iresult' = FirstMatch(youtube_url)
    /\ rule' = "regex"
    /\ ipc' = "done"
    /\ UNCHANGED <<youtube_url, parsed_url, tvars, pvars>>

\* no pattern matches: return None
FallbackNone ==
    /\ ipc = "fallback"
    /\ FirstMatch(youtube_url) = None
    /\ iresult' = None
    /\ rule' = "none"
    /\ ipc' = "done"
    /\ UNCHANGED <<youtube_url, parsed_url, tvars, pvars>>

NextId ==
    \/ ParseOk
    \/ ParseRaises
    \/ VRule
    \/ ShortRule
    \/ EmbedRule
    \/ NoRule
    \/ FallbackMatch
    \/ FallbackNone

-----------------------------------------------------------------------------
(* generate_prompt_from_transcript *)

\* Bound of the model: the segments of a transcript
MaxSnippets == 3

\* "Summarize the following video:\n"
Header ==
    <<"S","u","m","m","a","r","i","z","e"," ","t","h","e"," ",
      "f","o","l","l","o","w","i","n","g"," ","v","i","d","e","o",":","\n">>

Texts == { <<>>, <<"a">>, <<" ","b"," ">> }

\* A segment is an object with a text attribute (a FetchedTranscriptSnippet),
\* a dict, or another value, of which str() gives repr.
Snippets ==
    {[kind |-> "object", text |-> t] : t \in Texts}
        \cup {[kind |-> "dict", items |-> [text |-> t, start |-> <<"0">>]] : t \in Texts}
        \cup {[kind |-> "dict", items |-> [start |-> <<"0">>]]}
        \cup {[kind |-> "other", repr |-> <<"7">>]}

Transcripts == UNION {[1..n -> Snippets] : n \in 0..MaxSnippets}

\* hasattr(trans, 'text')
HasAttrText(trans) == trans.kind = "object"

\* isinstance(trans, dict)
IsDict(trans) == trans.kind = "dict"

\* DictGet without the default: str(None) for a missing key
DictGetNoDefault(d, key, default) ==
    IF key \in DOMAIN d THEN d[key] ELSE <<"N","o","n","e">>

\* dict.get(key, default)
DictGet(d, key, default) == IF key \in DOMAIN d THEN d[key] ELSE default

PInit ==
    /\ transcript \in Transcripts
    /\ ppc = "start"
    /\ k = 0
    /\ prompt = <<>>

\* prompt = "Summarize the following video:\n"
Begin ==
    /\ ppc = "start"
    /\ prompt' = Header
    /\ k' = 1
    /\ ppc' = "loop"
    /\ UNCHANGED <<transcript, tvars, ivars>>

\* prompt += " " + trans.text
AppendAttr ==
    /\ ppc = "loop"
    /\ k <= Len(transcript)
    /\ HasAttrText(transcript[k])
    /\ prompt' = prompt \o (<<" ">> \o transcript[k].text)
    /\ k' = k + 1
    /\ UNCHANGED <<transcript, ppc, tvars, ivars>>

\* prompt += " " + trans.get('text', '')
AppendDict ==
    /\ ppc = "loop"
    /\ k <= Len(transcript)
    /\ ~HasAttrText(transcript[k])
    /\ IsDict(transcript[k])
    /\ prompt' = prompt \o (<<" ">> \o DictGet(transcript[k].items, "text", <<>>))
    /\ k' = k + 1
    /\ UNCHANGED <<transcript, ppc, tvars, ivars>>

\* prompt += " " + str(trans)
AppendStr ==
    /\ ppc = "loop"
    /\ k <= Len(transcript)
    /\ ~HasAttrText(transcript[k])
    /\ ~IsDict(transcript[k])
    /\ prompt' = prompt \o (<<" ">> \o transcript[k].repr)
    /\ k' = k + 1
    /\ UNCHANGED <<transcript, ppc, tvars, ivars>>

\* return prompt
Return ==
    /\ ppc = "loop"
    /\ k > Len(transcript)
    /\ ppc' = "done"
    /\ UNCHANGED <<transcript, k, prompt, tvars, ivars>>

NextPrompt ==
    \/ Begin
    \/ AppendAttr
    \/ AppendDict
    \/ AppendStr
    \/ Return

-----------------------------------------------------------------------------
(* The variables of a function that is not running *)

IIdle ==
    /\ youtube_url = <<>>
    /\ ipc = "idle"
    /\ parsed_url = None
    /\ rule = "none"
    /\ iresult = Pending

PIdle ==
    /\ transcript = <<>>
    /\ ppc = "idle"
    /\ k = 0
    /\ prompt = <<>>


Init == TInit /\ IIdle /\ PIdle
Spec == Init /\ [][Next]_vars

InitId == IInit /\ TIdle /\ PIdle
SpecId == InitId /\ [][NextId]_vars

InitPrompt == PInit /\ TIdle /\ IIdle
SpecPrompt == InitPrompt /\ [][NextPrompt]_vars

-----------------------------------------------------------------------------
(* Properties of get_transcript, checked under Spec *)

\* "english", each letter in either case
EnglishAnyCase ==
    << {"e","E"}, {"n","N"}, {"g","G"}, {"l","L"}, {"i","I"}, {"s","S"}, {"h","H"} >>

\* A descriptor qualifies as English: its code begins with the letters e, n,
\* or its name holds the word english in any mix of cases
Qualifies(t) ==
    \/ /\ Len(t.language_code) >= 2
       /\ t.language_code[1] = "e"
       /\ t.language_code[2] = "n"
    \/ \E i \in 1..Len(t.language) :
          /\ i + 6 <= Len(t.language)
          /\ \A j \in 1..7 : t.language[i + j - 1] \in EnglishAnyCase[j]

EnglishTracks == {i \in 1..Len(tracks) : Qualifies(tracks[i])}
ListReturned == Len(calls) >= 1 /\ calls[1] = Call("list", 0, TRUE)
Successes ==
    {n \in 1..Len(calls) :
        calls[n].op \in {"fetch", "fetch_translated"} /\ calls[n].ok}
TranslateAttempted == \E n \in 1..Len(calls) : calls[n].op = "translate"
FailedBefore(op, i, n) == \E m \in 1..(n - 1) : calls[m] = Call(op, i, FALSE)

\* C1 as stated: a translation is requested only when no descriptor of the
\* list qualifies as English, and for a list of one English and one
\* non-English track the result is the English track's content with no
\* translation attempted, whatever the fetch calls do.
C1_TranslateOnlyWithoutEnglish ==
    /\ TranslateAttempted => EnglishTracks = {}
    /\ (tpc = "done" /\ Len(tracks) = 2 /\ Cardinality(EnglishTracks) = 1)
          => /\ \E i \in EnglishTracks : tresult = Fetched(i)
             /\ ~TranslateAttempted

\* C1 amended: a translation is requested only after every descriptor that
\* qualifies as English has been fetched and its fetch raised (none
\* qualifying included); for a list of one English and one non-English track
\* the result is the English track's content with no translation attempted
\* when that track's fetch returns, and the translation of the first
\* descriptor is attempted when it raises.
C1_TranslateOnlyAfterEnglishFailed ==
    /\ \A n \in 1..Len(calls) :
          calls[n].op = "translate"
             => \A i \in EnglishTracks : FailedBefore("fetch", i, n)
    /\ (tpc = "done" /\ Len(tracks) = 2 /\ Cardinality(EnglishTracks) = 1)
          => \A i \in EnglishTracks :
                /\ (\E n \in 1..Len(calls) : calls[n] = Call("fetch", i, TRUE))
                      => tresult = Fetched(i) /\ ~TranslateAttempted
                /\ (\E n \in 1..Len(calls) : calls[n] = Call("fetch", i, FALSE))
                      => \E n \in 1..Len(calls) :
                            calls[n].op = "translate" /\ calls[n].track = 1

\* One English and one non-English track, the English fetch raised and the
\* call went on to translate.
C1_Witness ==
    /\ tpc = "done"
    /\ Len(tracks) = 2
    /\ EnglishTracks = {1}
    /\ TranslateAttempted
    /\ tresult = Translated(2)

\* C2: in the first pass a fetch that raises does not end the call: the
\* English-qualifying descriptors are fetched in service order, each after
\* all earlier ones raised, and all of them before a translation is requested
\* or None is returned; a fetch that returns ends the call with its content
\* and nothing is fetched after it.
C2_FirstPassContinues ==
    /\ \A n \in 1..Len(calls) :
          calls[n].op = "fetch"
             => /\ calls[n].track \in EnglishTracks
                /\ \A j \in EnglishTracks :
                      j < calls[n].track => FailedBefore("fetch", j, n)
                /\ \A m \in 1..Len(calls) :
                      (calls[m].op = "fetch" /\ calls[m].track = calls[n].track)
                         => m = n
    /\ \A n \in 1..Len(calls) :
          calls[n].op = "translate"
             => \A i \in EnglishTracks : FailedBefore("fetch", i, n)
    /\ (tpc = "done" /\ ListReturned /\ tresult = None)
          => \A i \in EnglishTracks : FailedBefore("fetch", i, Len(calls) + 1)
    /\ \A n \in 1..Len(calls) :
          calls[n].op = "fetch" /\ calls[n].ok
             => /\ n = Len(calls)
                /\ tpc = "done"
                /\ tresult = Fetched(calls[n].track)

\* The first English track's fetch raised, the second returned, and a third
\* English track was left alone.
C2_Witness ==
    /\ tpc = "done"
    /\ EnglishTracks = {1, 2, 3}
    /\ tresult = Fetched(2)
    /\ calls = <<Call("list", 0, TRUE), Call("fetch", 1, FALSE), Call("fetch", 2, TRUE)>>

\* C3: once the first pass returned nothing, the second pass asks every
\* descriptor in the original order for a translation, the fetch of a
\* translation follows the translate call that returned, a descriptor whose
\* translate or fetch raises is skipped, the first descriptor for which both
\* return gives the result, and no descriptor after it is contacted.
C3_SecondPassInOrder ==
    /\ \A n \in 1..Len(calls) :
          calls[n].op = "translate"
             => /\ \A m \in 1..(n - 1) : m \notin Successes
                /\ calls[n].track =
                      1 + Cardinality({m \in 1..(n - 1) : calls[m].op = "translate"})
                /\ calls[n].ok
                      => /\ n < Len(calls)
                         /\ calls[n + 1].op = "fetch_translated"
                         /\ calls[n + 1].track = calls[n].track
    /\ \A n \in 1..Len(calls) :
          calls[n].op = "fetch_translated"
             => /\ n > 1
                /\ calls[n - 1] = Call("translate", calls[n].track, TRUE)
                /\ calls[n].ok
                      => /\ n = Len(calls)
                         /\ tpc = "done"
                         /\ tresult = Translated(calls[n].track)
    /\ \A i \in 1..Len(tracks) :
          tresult = Translated(i)
             => /\ calls[Len(calls)] = Call("fetch_translated", i, TRUE)
                /\ \A j \in 1..(i - 1) :
                      \/ FailedBefore("translate", j, Len(calls))
                      \/ FailedBefore("fetch_translated", j, Len(calls))
    /\ (tpc = "done" /\ ListReturned /\ Successes = {})
          => \A i \in 1..Len(tracks) :
                \/ FailedBefore("translate", i, Len(calls) + 1)
                \/ FailedBefore("fetch_translated", i, Len(calls) + 1)

\* An English track whose fetch and translation raised, a second track whose
\* translated fetch raised, a third whose translation was returned.
C3_Witness ==
    /\ tpc = "done"
    /\ Len(tracks) = 3
    /\ 1 \in EnglishTracks
    /\ tresult = Translated(3)
    /\ \E n \in 1..Len(calls) : calls[n] = Call("translate", 1, FALSE)
    /\ \E n \in 1..Len(calls) : calls[n] = Call("fetch_translated", 2, FALSE)

\* C4: with None or the empty string as the identifier the call returns None
\* and no list, fetch or translate call is made.
C4_NoContactWithoutId ==
    (video_id = None \/ video_id = Str(<<>>))
       => /\ calls = <<>>
          /\ tresult \in {Pending, None}
          /\ tpc = "done" => tresult = None

\* The call with the empty string has returned.
C4_Witness ==
    /\ video_id = Str(<<>>)
    /\ tpc = "done"
    /\ tresult = None

\* C5: no exception escapes: when the listing raises, None is returned with
\* no other call and one listing only; with a non-empty identifier None is
\* returned exactly when the listing raised or every attempt of both passes
\* raised; otherwise the result is the content of the one fetch that returned.
C5_NoExceptionEscapes ==
    /\ tresult # Raised
    /\ tpc \in {"start", "pass1", "pass2", "done"}
    /\ tpc = "done" => tresult # Pending
    /\ \A n \in 1..Len(calls) : calls[n].op = "list" => n = 1
    /\ (Len(calls) >= 1 /\ calls[1] = Call("list", 0, FALSE))
          => /\ Len(calls) = 1
             /\ tpc = "done"
             /\ tresult = None
    /\ (tpc = "done" /\ video_id # None /\ video_id # Str(<<>>))
          => /\ tresult = None <=> Successes = {}
             /\ Successes # {}
                   => /\ Cardinality(Successes) = 1
                      /\ \A n \in Successes :
                            tresult = IF calls[n].op = "fetch"
                                      THEN Fetched(calls[n].track)
                                      ELSE Translated(calls[n].track)
             /\ Successes = {}
                   => \/ calls = <<Call("list", 0, FALSE)>>
                      \/ /\ ListReturned
                         /\ \A i \in EnglishTracks :
                               FailedBefore("fetch", i, Len(calls) + 1)
                         /\ \A i \in 1..Len(tracks) :
                               \/ FailedBefore("translate", i, Len(calls) + 1)
                               \/ FailedBefore("fetch_translated", i, Len(calls) + 1)

\* Every attempt on two tracks raised, one of them after its translate call
\* returned, and the call returned None.
C5_Witness ==
    /\ tpc = "done"
    /\ tresult = None
    /\ Len(tracks) = 2
    /\ EnglishTracks # {}
    /\ \E n \in 1..Len(calls) : calls[n] = Call("fetch_translated", 2, FALSE)

-----------------------------------------------------------------------------
(* Properties of get_video_id_from_url, checked under SpecId *)

Parsed == parsed_url # Raised /\ parsed_url # None
CanonicalHost == Parsed /\ Contains(parsed_url.netloc, s_youtube_com)
ShortHost == Parsed /\ parsed_url.netloc = s_youtu_be
EmbedPath == Parsed /\ Contains(parsed_url.path, s_embed)

\* The '&'-separated pieces of the query that name the parameter v, in order,
\* and those of them with a value
VPieces ==
    SelectSeq(Split(parsed_url.query, <<"&">>),
              LAMBDA p : Len(p) >= 2 /\ p[1] = "v" /\ p[2] = "=")
ValuedVPieces == SelectSeq(VPieces, LAMBDA p : Len(p) > 2)

\* The value a piece v=... carries, '+' read as a space
ValueOf(piece) ==
    [i \in 1..(Len(piece) - 2) |->
        IF piece[i + 2] = "+" THEN " " ELSE piece[i + 2]]

\* C6 as stated: with the canonical domain in the host and a parameter named
\* v in the query, the result is the first value of that parameter, whatever
\* its length and whatever the path and the other parameters.
C6_FirstValueOfV ==
    (ipc = "done" /\ CanonicalHost /\ VPieces # <<>>)
       => iresult = Str(ValueOf(VPieces[1]))

\* C6 amended: with the canonical domain in the host and a parameter named v
\* that has a non-blank value, the result is the first non-blank value of v,
\* decoded, whatever its length and whatever the path and the other
\* parameters; a blank value of v is passed over.
C6_FirstNonBlankValueOfV ==
    (ipc = "done" /\ CanonicalHost /\ ValuedVPieces # <<>>)
       => /\ rule = "v"
          /\ iresult = Str(ValueOf(ValuedVPieces[1]))

\* A value of v that is not IdLen characters long is returned from a URL
\* with a path, after a blank v.
C6_Witness ==
    /\ ipc = "done"
    /\ rule = "v"
    /\ CanonicalHost
    /\ parsed_url.path # <<>>
    /\ Len(VPieces) = 2
    /\ Len(VPieces[1]) = 2
    /\ iresult = Str(<<"a", " ", "b">>)

\* C7: the result is None or a non-empty string, never the empty string.
C7_NeverEmptyString ==
    ipc = "done" => (iresult = None \/ (iresult.tag = "str" /\ iresult.val # <<>>))

\* r is the first segment of path: what follows the leading slashes up to the
\* next slash; empty only when the path is nothing but slashes
FirstSegment(path, r) ==
    \E n \in 0..Len(path) :
        /\ \A j \in 1..n : path[j] = "/"
        /\ n + Len(r) <= Len(path)
        /\ r = SubSeq(path, n + 1, n + Len(r))
        /\ "/" \notin Range(r)
        /\ n + Len(r) = Len(path) \/ path[n + Len(r) + 1] = "/"
        /\ r = <<>> => n = Len(path)

\* r is the segment after the first /embed/ of path, up to the next slash
SegmentAfterEmbed(path, r) ==
    \E i \in 1..Len(path) :
        /\ MatchAt(path, s_embed, i)
        /\ \A j \in 1..(i - 1) : ~MatchAt(path, s_embed, j)
        /\ i + 6 + Len(r) <= Len(path)
        /\ r = SubSeq(path, i + 7, i + 6 + Len(r))
        /\ "/" \notin Range(r)
        /\ "?" \notin Range(r)
        /\ i + 6 + Len(r) = Len(path) \/ path[i + 7 + Len(r)] = "/"

\* C8: without a v parameter, the short-link host gives the first path
\* segment and the canonical host with /embed/ in the path gives the segment
\* after /embed/, trailing path and query removed, and the patterns are not
\* consulted.
C8_PathRules ==
    (Parsed /\ VPieces = <<>>)
       => /\ (ipc = "done" /\ ShortHost)
                => /\ rule = "short"
                   /\ iresult.tag = "str"
                   /\ FirstSegment(parsed_url.path, iresult.val)
          /\ (ipc = "done" /\ CanonicalHost /\ EmbedPath)
                => /\ rule = "embed"
                   /\ iresult.tag = "str"
                   /\ SegmentAfterEmbed(parsed_url.path, iresult.val)
          /\ (ShortHost \/ (CanonicalHost /\ EmbedPath)) => ipc # "fallback"

\* An embed URL with a query and no v: the identifier after /embed/ is
\* returned.
C8_Witness ==
    /\ ipc = "done"
    /\ rule = "embed"
    /\ VPieces = <<>>
    /\ parsed_url.query # <<>>
    /\ iresult = Str(<<"d","Q","w","4","w","9","W","g","X","c","Q">>)

\* The characters of an identifier
IdAlphabet ==
    {"0","1","2","3","4","5","6","7","8","9","_","-",
     "A","B","C","D","E","F","G","H","I","J","K","L","M",
     "N","O","P","Q","R","S","T","U","V","W","X","Y","Z",
     "a","b","c","d","e","f","g","h","i","j","k","l","m",
     "n","o","p","q","r","s","t","u","v","w","x","y","z"}

\* At position i of s, lead is followed by 11 identifier characters
LeadThenId(s, lead, i) ==
    /\ MatchAt(s, lead, i)
    /\ i + Len(lead) + 10 <= Len(s)
    /\ \A j \in (i + Len(lead))..(i + Len(lead) + 10) : s[j] \in IdAlphabet

HasVEqId(s) == \E i \in 1..Len(s) : LeadThenId(s, <<"v","=">>, i)
SomePatternMatches(s) ==
    \E i \in 1..Len(s) :
        \/ LeadThenId(s, <<"v","=">>, i)
        \/ LeadThenId(s, <<"/">>, i)
        \/ LeadThenId(s, <<"e","m","b","e","d","/">>, i)
        \/ LeadThenId(s, <<"w","a","t","c","h","?","v","=">>, i)

\* No structured rule applies to the parsed URL
NoStructuredRule ==
    /\ Parsed
    /\ ~(CanonicalHost /\ ValuedVPieces # <<>>)
    /\ ~Contains(parsed_url.netloc, s_youtu_be)
    /\ ~(CanonicalHost /\ EmbedPath)

\* C10: when no structured rule matched or the parsing raised, the patterns
\* decide: "v=" followed by 11 identifier characters in the raw string makes
\* the call succeed, an identifier from the patterns is 11 identifier
\* characters, and None is returned exactly when no pattern matches the raw
\* string; None is returned in no other case.
C10_FallbackDecides ==
    /\ ipc = "fallback" => (parsed_url = Raised \/ NoStructuredRule)
    /\ (ipc = "done" /\ (parsed_url = Raised \/ NoStructuredRule))
          => /\ rule \in {"regex", "none"}
             /\ HasVEqId(youtube_url) => iresult # None
             /\ iresult = None <=> ~SomePatternMatches(youtube_url)
    /\ (ipc = "done" /\ rule = "regex")
          => /\ iresult.tag = "str"
             /\ Len(iresult.val) = 11
             /\ Range(iresult.val) \subseteq IdAlphabet
             /\ \E i \in 1..Len(youtube_url) :
                   \/ /\ LeadThenId(youtube_url, <<"v","=">>, i)
                      /\ iresult.val = SubSeq(youtube_url, i + 2, i + 12)
                   \/ /\ LeadThenId(youtube_url, <<"/">>, i)
                      /\ iresult.val = SubSeq(youtube_url, i + 1, i + 11)
    /\ (ipc = "done" /\ iresult = None)
          => (parsed_url = Raised \/ NoStructuredRule)

\* The parsing raised and the pattern found v= followed by 11 identifier
\* characters in the raw string.
C10_Witness ==
    /\ ipc = "done"
    /\ parsed_url = Raised
    /\ rule = "regex"
    /\ HasVEqId(youtube_url)
    /\ iresult = Str(<<"a","b","c","-","D","E","F","_","1","2","3">>)

-----------------------------------------------------------------------------
(* Properties of generate_prompt_from_transcript, checked under SpecPrompt *)

\* The text a segment contributes
TextOf(seg) ==
    CASE seg.kind = "object" -> seg.text
      [] seg.kind = "dict" ->
            IF "text" \in DOMAIN seg.items THEN seg.items.text ELSE <<>>
      [] OTHER -> seg.repr

\* The length of the header and of the contributions of the segments before i
RECURSIVE Offset(_)
Offset(i) ==
    IF i <= 1 THEN 31
    ELSE Offset(i - 1) + 1 + Len(TextOf(transcript[i - 1]))

\* C9: the prompt is the header followed, for each segment in order, by one
\* space and the segment's text, nothing trimmed, dropped or cut; an empty
\* transcript gives the header alone and a mapping without a text entry
\* contributes the empty text.
C9_PromptIsHeaderThenTexts ==
    ppc \in {"loop", "done"}
       => /\ Len(prompt) = Offset(k)
          /\ SubSeq(prompt, 1, 31) = Header
          /\ \A i \in 1..(k - 1) :
                /\ prompt[Offset(i) + 1] = " "
                /\ SubSeq(prompt, Offset(i) + 2, Offset(i + 1)) = TextOf(transcript[i])
          /\ ppc = "done" => k = Len(transcript) + 1
          /\ (ppc = "done" /\ transcript = <<>>) => prompt = Header

\* A mapping without a text entry, then an object whose text has spaces at
\* both ends: the prompt ends with two spaces, "b" and a space.
C9_Witness ==
    /\ ppc = "done"
    /\ Len(transcript) = 2
    /\ transcript[1].kind = "dict"
    /\ "text" \notin DOMAIN transcript[1].items
    /\ transcript[2] = [kind |-> "object", text |-> <<" ","b"," ">>]
    /\ prompt = Header \o <<" ", " ", " ", "b", " ">>

====
